---- MODULE Spec2Model ----
(***************************************************************************)
(* Crimson Dominion backend: the credential/session lifecycle of           *)
(* auth/endpoints.py, the fleet battle of user_battles/endpoints.py and    *)
(* the handlers of users, user_fleets, planets and battles that decide     *)
(* for whom a request acts, as a state machine over the relational store,  *)
(* its connections, the clock and the tokens handed out to clients.        *)
(***************************************************************************)
EXTENDS Integers, Sequences, FiniteSets, TLC

VARIABLES
  SECRET_KEY,          \* auth/endpoints.py:17, read from the environment at import
  REFRESH_SECRET_KEY,  \* auth/endpoints.py:18
  users,               \* rows of the users table
  nextId,              \* the uuid the next users row gets
  planets,             \* rows of the planets table
  user_fleets,         \* rows of the user_fleets table
  nextFleetId,         \* the uuid4() the next fleet gets
  battles,             \* rows of the battles table
  connections,         \* how many connections of connect_to_db are open
  now,                 \* datetime.utcnow(), in whole seconds
  ticks,               \* how often the clock has advanced
  accessIssued,        \* access tokens returned by login / refresh that clients hold
  refreshIssued,       \* refresh tokens returned by login / refresh that clients hold
  refreshed,           \* the tokens /refresh has accepted
  calls,               \* the start_battle invocations in progress, each with its locals
  resp                 \* the response of the last request

config == <<SECRET_KEY, REFRESH_SECRET_KEY>>

store == <<users, nextId, planets, user_fleets, nextFleetId, battles>>

clock == <<now, ticks>>

tokens == <<accessIssued, refreshIssued, refreshed>>

vars == <<config, store, clock, tokens, connections, calls, resp>>

-----------------------------------------------------------------------------
(* Bounds of the model *)

MaxUsers == 2
MaxFleets == 2
MaxTicks == 2
MaxIssued == 1
MaxPlanets == 1
MaxConnections == 1

(* Program constants *)

ACCESS_TOKEN_EXPIRE_MINUTES == 30
REFRESH_TOKEN_EXPIRE_DAYS == 7

(* Input domains *)

Usernames == {"", "ann"}
Emails == {"a@x", "b@x"}
Passwords == {"pw1", "pw2"}
Salts == {"s1"}
EnvValues == {"k1"}
Unset == "<unset>"
ForgedKey == "attacker-key"

AccessLifeSeconds == ACCESS_TOKEN_EXPIRE_MINUTES * 60
RefreshLifeSeconds == REFRESH_TOKEN_EXPIRE_DAYS * 24 * 60 * 60
TickSteps == {1, AccessLifeSeconds, RefreshLifeSeconds}

-----------------------------------------------------------------------------
(* Values *)

\* str(uuid): the canonical text of a uuid, a value of another type than the uuid
\* and never the empty text <<>>
Str(id) == <<id>>

\* os.getenv(name, default)
getenv(value, default) == IF value = Unset THEN default ELSE value

\* passlib bcrypt: the salt is drawn per call and kept in the hash
hash_password(password, salt) == [salt |-> salt, digest |-> <<salt, password>>]

verify_password(plain, hashed) == hashed.digest = <<hashed.salt, plain>>

\* jose jwt.encode: the claims of to_encode that are not None, signed with key
jwt_encode(to_encode, key) ==
  [fmt |-> "jwt", key |-> key, has |-> to_encode.has,
   id |-> to_encode.id, sub |-> to_encode.sub, is_admin |-> to_encode.is_admin,
   exp |-> to_encode.exp]

\* mutant: a decode that does not look at "exp"
jwt_decode_ok_noexp(token, key, at) ==
  /\ token.fmt = "jwt"
  /\ token.key = key

\* jose jwt.decode raises no JWTError: well-formed, signed with key, and not
\* past "exp" (jose rejects when exp < now, both in whole seconds)
jwt_decode_ok(token, key, at) ==
  /\ token.fmt = "jwt"
  /\ token.key = key
  /\ ("exp" \in token.has => ~(token.exp < at))

\* payload.get(k) is truthy: present, and not the empty string
Truthy(token, k) ==
  /\ k \in token.has
  /\ CASE k = "id" -> token.id # <<>>
       [] k = "sub" -> token.sub # ""
       [] OTHER -> TRUE

\* to_encode = data.copy(); to_encode.update({"exp": expire})
with_exp(data, expire) ==
  [has |-> data.has \cup {"exp"}, id |-> data.id, sub |-> data.sub,
   is_admin |-> data.is_admin, exp |-> expire]

create_access_token(data, at) ==
  jwt_encode(with_exp(data, at + AccessLifeSeconds), SECRET_KEY)

create_refresh_token(data, at) ==
  jwt_encode(with_exp(data, at + RefreshLifeSeconds), REFRESH_SECRET_KEY)

\* the rows of SELECT ... FROM users WHERE username = %s
get_user_by_username(username) == {u \in users : u.username = username}

\* cursor.fetchone(): one of the rows, or None
NoRow == [id |-> 0]

\* the request to POST /user-battles/battle that is followed statement by
\* statement, while other requests run between its statements
CallIds == {"c1"}

\* a worker that is not inside start_battle
Idle ==
  [pc |-> "idle", current_user |-> <<>>, attacker_fleet_id |-> 0,
   defender_fleet_id |-> 0, attacker_fleet |-> NoRow]

NoCalls == [c \in CallIds |-> Idle]

Fetchone(rows) == IF rows = {} THEN {NoRow} ELSE rows

-----------------------------------------------------------------------------
(* Responses *)

Response(op, status, detail, arg, out) ==
  [op |-> op, status |-> status, detail |-> detail, arg |-> arg, out |-> out]

NoResponse == Response("none", 0, <<>>, <<>>, <<>>)

Result(status, detail, out) == [status |-> status, detail |-> detail, out |-> out]

\* connect_to_db raises HTTPException(500) when the store cannot be reached
DbDown == Result(500, <<"Database connection error">>, <<>>)

\* raise HTTPException(...) inside a try whose except Exception re-raises it as
\* HTTPException(500, f"{what}{str(e)}")
Wrapped(what, status, detail) == Result(500, <<what, status, detail>>, <<>>)

credentials_exception == Result(401, <<"Could not validate credentials">>, <<>>)

\* mutant: a get_current_user that takes a false is_admin for a missing one
get_current_user_truthy_flag(token, at) ==
  IF ~jwt_decode_ok(token, SECRET_KEY, at)
  THEN credentials_exception
  ELSE IF ~(/\ Truthy(token, "id") /\ Truthy(token, "sub")
            /\ "is_admin" \in token.has /\ token.is_admin)
  THEN credentials_exception
  ELSE Result(200, <<>>, [id |-> token.id, username |-> token.sub,
                          is_admin |-> token.is_admin])

\* mutant: a get_current_user that looks the credential record up in the store
get_current_user_checking_store(token, at) ==
  IF ~jwt_decode_ok(token, SECRET_KEY, at)
  THEN credentials_exception
  ELSE IF ~(Truthy(token, "id") /\ Truthy(token, "sub") /\ "is_admin" \in token.has)
  THEN credentials_exception
  ELSE IF ~\E u \in users : /\ <<u.id>> = token.id
                            /\ u.username = token.sub
                            /\ u.is_admin = token.is_admin
  THEN credentials_exception
  ELSE Result(200, <<>>, [id |-> token.id, username |-> token.sub,
                          is_admin |-> token.is_admin])

\* get_current_user: the TokenData of a bearer token, or the 401
get_current_user(token, at) ==
  IF ~jwt_decode_ok(token, SECRET_KEY, at)
  THEN credentials_exception
  ELSE IF ~(Truthy(token, "id") /\ Truthy(token, "sub") /\ "is_admin" \in token.has)
  THEN credentials_exception
  ELSE Result(200, <<>>, [id |-> token.id, username |-> token.sub,
                          is_admin |-> token.is_admin])

\* the claims login signs for a users row
login_payload(user) ==
  [has |-> {"id", "sub", "is_admin"}, id |-> Str(user.id), sub |-> user.username,
   is_admin |-> user.is_admin]

TokenPair(data, at) ==
  [access_token |-> create_access_token(data, at),
   refresh_token |-> create_refresh_token(data, at), token_type |-> "bearer"]

\* mutant: a login that tells an unknown username from a wrong password
login_result_enumerating(password, user, at) ==
  IF user = NoRow
  THEN Result(404, <<"User not found">>, <<>>)
  ELSE IF ~verify_password(password, user.password)
  THEN Result(401, <<"Invalid username or password">>, <<>>)
  ELSE Result(200, <<>>, TokenPair(login_payload(user), at))

\* login, after get_user_by_username returned user
login_result(password, user, at) ==
  IF user = NoRow \/ ~verify_password(password, user.password)
  THEN Result(401, <<"Invalid username or password">>, <<>>)
  ELSE Result(200, <<>>, TokenPair(login_payload(user), at))

\* mutant: a refresh that signs the id and the username only
RefreshedPair_without_flag(token, at) ==
  TokenPair([has |-> {"id", "sub"}, id |-> token.id, sub |-> token.sub,
             is_admin |-> token.is_admin], at)

\* refresh_token: the pair minted from the claims of the presented token
RefreshedPair(token, at) ==
  TokenPair([has |-> (token.has \cap {"is_admin"}) \cup {"id", "sub"},
             id |-> token.id, sub |-> token.sub, is_admin |-> token.is_admin], at)

\* mutant: a refresh that does not verify the signature
refresh_result_unverified(token, at) ==
  IF token.fmt # "jwt" \/ ("exp" \in token.has /\ token.exp < at)
  THEN Result(401, <<"Invalid or expired refresh token">>, <<>>)
  ELSE IF ~Truthy(token, "sub") \/ ~Truthy(token, "id")
  THEN Result(401, <<"Invalid refresh token">>, <<>>)
  ELSE Result(200, <<>>, RefreshedPair(token, at))

\* mutant: a refresh that rotates, refusing a token it has accepted before
refresh_result_rotating(token, at) ==
  IF ~jwt_decode_ok(token, REFRESH_SECRET_KEY, at) \/ token \in refreshed
  THEN Result(401, <<"Invalid or expired refresh token">>, <<>>)
  ELSE IF ~Truthy(token, "sub") \/ ~Truthy(token, "id")
  THEN Result(401, <<"Invalid refresh token">>, <<>>)
  ELSE Result(200, <<>>, RefreshedPair(token, at))

\* mutant: a refresh that looks the credential record up and signs what it finds
refresh_result_checking_store(token, at) ==
  IF ~jwt_decode_ok(token, REFRESH_SECRET_KEY, at)
  THEN Result(401, <<"Invalid or expired refresh token">>, <<>>)
  ELSE IF ~Truthy(token, "sub") \/ ~Truthy(token, "id")
  THEN Result(401, <<"Invalid refresh token">>, <<>>)
  ELSE IF ~\E u \in users : <<u.id>> = token.id /\ u.is_admin = token.is_admin
  THEN Result(401, <<"Invalid refresh token">>, <<>>)
  ELSE Result(200, <<>>, RefreshedPair(token, at))

\* refresh_token
refresh_result(token, at) ==
  IF ~jwt_decode_ok(token, REFRESH_SECRET_KEY, at)
  THEN Result(401, <<"Invalid or expired refresh token">>, <<>>)
  ELSE IF ~Truthy(token, "sub") \/ ~Truthy(token, "id")
  THEN Result(401, <<"Invalid refresh token">>, <<>>)
  ELSE Result(200, <<>>, RefreshedPair(token, at))

\* register_user / register_admin on a reachable store: the result and the row
register_result(what, username, email) ==
  IF \E u \in users : u.username = username
  THEN Wrapped(what, 400, "Username already taken")
  ELSE IF \E u \in users : u.email = email
  THEN Wrapped(what, 400, "Email already in use")
  ELSE Result(200, <<>>, [user_id |-> nextId])

-----------------------------------------------------------------------------
(* Requests *)

\* Tokens a client can present: the ones handed out, the same re-signed with a
\* key of the client's own, and text that is no token
Garbage ==
  [fmt |-> "garbage", key |-> ForgedKey, has |-> {}, id |-> <<>>, sub |-> "",
   is_admin |-> FALSE, exp |-> 0]

Forged(token) == [token EXCEPT !.key = ForgedKey]

Presentable ==
  LET issued == accessIssued \cup refreshIssued
  IN issued \cup {Forged(t) : t \in issued} \cup {Garbage}

Respond(op, arg, result) ==
  resp' = Response(op, result.status, result.detail, arg, result.out)

\* the clock advances; the responses delivered before are history
Tick ==
  /\ ticks < MaxTicks
  /\ \E d \in TickSteps : now' = now + d
  /\ ticks' = ticks + 1
  /\ resp' = NoResponse
  /\ UNCHANGED <<config, calls, connections, store, tokens>>

\* POST /register and /register-admin: the row inserted differs in is_admin only
register(op, is_admin, what) ==
  \E username \in Usernames, email \in Emails, up \in BOOLEAN :
    LET arg == [username |-> username, email |-> email]
        result == IF up THEN register_result(what, username, email) ELSE DbDown
    IN
    /\ Respond(op, arg, result)
      /\ IF result.status = 200
       THEN /\ nextId <= MaxUsers
            /\ \E password \in Passwords, salt \in Salts :
                 users' = users \cup
                   {[id |-> nextId, username |-> username, email |-> email,
                     password |-> hash_password(password, salt),
                     is_admin |-> is_admin]}
            /\ nextId' = nextId + 1
       ELSE UNCHANGED <<users, nextId>>
    /\ UNCHANGED <<config, calls, connections, planets, user_fleets, nextFleetId, battles, clock, tokens>>

register_user == register("register", FALSE, "Error creating user: ")

register_admin == register("register-admin", TRUE, "Error creating admin: ")

\* the token pair of a response joins the tokens clients hold, while they have
\* room for it
HandOut(result) ==
  IF /\ result.status = 200
     /\ Cardinality(accessIssued \cup {result.out.access_token}) <= MaxIssued
     /\ Cardinality(refreshIssued \cup {result.out.refresh_token}) <= MaxIssued
  THEN /\ accessIssued' = accessIssued \cup {result.out.access_token}
       /\ refreshIssued' = refreshIssued \cup {result.out.refresh_token}
  ELSE UNCHANGED <<accessIssued, refreshIssued>>

\* POST /login
login ==
  \E username \in Usernames, password \in Passwords, up \in BOOLEAN :
    \E user \in Fetchone(get_user_by_username(username)) :
      LET arg == [username |-> username, password |-> password]
          result == IF up THEN login_result(password, user, now) ELSE DbDown
      IN
      /\ Respond("login", arg, result)
      /\ HandOut(result)
      /\ UNCHANGED <<config, calls, connections, store, clock, refreshed>>

\* POST /refresh
refresh_token ==
  \E token \in Presentable :
    LET result == refresh_result(token, now)
    IN
    /\ Respond("refresh", [token |-> token, again |-> token \in refreshed], result)
    /\ HandOut(result)
    /\ refreshed' = IF result.status = 200 THEN refreshed \cup {token} ELSE refreshed
    /\ UNCHANGED <<config, calls, connections, store, clock>>

\* a request carrying a bearer token, resolved by Depends(get_current_user)
resolve_caller ==
  \E token \in Presentable :
    /\ Respond("get_current_user", [token |-> token], get_current_user(token, now))
    /\ UNCHANGED <<config, calls, connections, store, clock, tokens>>

-----------------------------------------------------------------------------
(* The session lifecycle from an empty store *)

InitConfig ==
  /\ \E env \in EnvValues \cup {Unset} : SECRET_KEY = getenv(env, "your-secret-key")
  /\ \E env \in EnvValues \cup {Unset} :
       REFRESH_SECRET_KEY = getenv(env, "your-refresh-secret-key")

Init ==
  /\ InitConfig
  /\ users = {}
  /\ nextId = 1
  /\ planets = {}
  /\ user_fleets = {}
  /\ nextFleetId = 1
  /\ battles = {}
  /\ calls = NoCalls
  /\ connections = 0
  /\ now = 0
  /\ ticks = 0
  /\ accessIssued = {}
  /\ refreshIssued = {}
  /\ refreshed = {}
  /\ resp = NoResponse

Next ==
  \/ register_user
  \/ register_admin
  \/ login
  \/ refresh_token
  \/ resolve_caller

Spec == Init /\ [][Next]_vars

-----------------------------------------------------------------------------
(* The token lifecycle over a store that holds two registered users *)

\* the row register_user("ann") leaves in an empty store
RegisteredUsers ==
  {[id |-> 1, username |-> "ann", email |-> "a@x",
    password |-> hash_password("pw1", "s1"), is_admin |-> FALSE]}

InitSession ==
  /\ InitConfig
  /\ users = RegisteredUsers
  /\ nextId = 2
  /\ planets = {}
  /\ user_fleets = {}
  /\ nextFleetId = 1
  /\ battles = {}
  /\ calls = NoCalls
  /\ connections = 0
  /\ now = 0
  /\ ticks = 0
  /\ accessIssued = {}
  /\ refreshIssued = {}
  /\ refreshed = {}
  /\ resp = NoResponse

NextSession ==
  \/ Tick
  \/ login
  \/ refresh_token
  \/ resolve_caller

SpecSession == InitSession /\ [][NextSession]_vars

-----------------------------------------------------------------------------
(* get_current_user on every bearer token a holder of some key can sign *)

\* the payloads a signer can put into a token: each claim is there or not, and
\* one that is not is read as None
Payloads ==
  {d \in [has : SUBSET {"id", "sub", "is_admin", "exp"}, id : {<<>>, Str(1)},
           sub : {"", "ann"}, is_admin : BOOLEAN, exp : {AccessLifeSeconds}] :
     /\ ("id" \notin d.has => d.id = <<>>)
     /\ ("sub" \notin d.has => d.sub = "")
     /\ ("is_admin" \notin d.has => d.is_admin = FALSE)}

\* a request whose bearer token is any payload signed with the access secret or
\* with another key
resolve_bearer ==
  \E payload \in Payloads, key \in {SECRET_KEY, ForgedKey} :
    LET token == jwt_encode(payload, key)
    IN
    /\ Respond("get_current_user", [token |-> token], get_current_user(token, now))
    /\ UNCHANGED <<config, calls, connections, store, clock, tokens>>

NextDecode ==
  \/ Tick
  \/ resolve_bearer

SpecDecode == InitSession /\ [][NextDecode]_vars

-----------------------------------------------------------------------------
(* A client that logged in at time 0 and from then on keeps the newest pair *)

\* the response of the login of the registered user at time 0
OriginalLogin ==
  LET user == CHOOSE u \in RegisteredUsers : TRUE
  IN login_result("pw1", user, 0).out

\* POST /refresh by a client that replaces its pair by the one returned
refresh_newest ==
  \E token \in Presentable :
    LET result == refresh_result(token, now)
    IN
    /\ Respond("refresh", [token |-> token, again |-> token \in refreshed], result)
    /\ IF result.status = 200
       THEN /\ accessIssued' = {result.out.access_token}
            /\ refreshIssued' = {result.out.refresh_token}
            /\ refreshed' = refreshed \cup {token}
       ELSE UNCHANGED <<accessIssued, refreshIssued, refreshed>>
    /\ UNCHANGED <<config, calls, connections, store, clock>>

InitChain ==
  /\ InitConfig
  /\ users = RegisteredUsers
  /\ nextId = 2
  /\ planets = {}
  /\ user_fleets = {}
  /\ nextFleetId = 1
  /\ battles = {}
  /\ calls = NoCalls
  /\ connections = 0
  /\ now = 0
  /\ ticks = 0
  /\ accessIssued = {OriginalLogin.access_token}
  /\ refreshIssued = {OriginalLogin.refresh_token}
  /\ refreshed = {}
  /\ resp = NoResponse

NextChain ==
  \/ Tick
  \/ refresh_newest
  \/ resolve_caller

SpecChain == InitChain /\ [][NextChain]_vars

-----------------------------------------------------------------------------
(* Fleets and the battle of two fleets *)

ShipTypes == {"fighter", "cruiser"}

\* the ships of a request, "ships: dict": ship type -> count, any integer
NoShips == [t \in {} |-> 0]

ShipDicts ==
  {NoShips, [t \in {"fighter"} |-> 1], [t \in ShipTypes |-> 0],
   [t \in {"fighter"} |-> -1]}

FleetNames == {"alpha"}

BattleIds == {"b1", "b2"}

\* json.dumps(ships): the text stored in user_fleets.ships
json_dumps(ships) == [json |-> ships]

\* json.loads(text) if isinstance(text, str) else text
json_loads(text) == text.json

\* sum(ships.values())
RECURSIVE sum_values(_)
sum_values(ships) ==
  IF DOMAIN ships = {} THEN 0
  ELSE LET t == CHOOSE x \in DOMAIN ships : TRUE
       IN ships[t] + sum_values([x \in DOMAIN ships \ {t} |-> ships[x]])

\* the rows of SELECT ... FROM user_fleets WHERE id = %s
fleet_by_id(fleet_id) == {f \in user_fleets : f.id = fleet_id}

\* mutant: a battle in which the attacker wins a tie
determine_winner_attacker_ties(attacker_fleet, defender_fleet, attacker_total, defender_total) ==
  IF attacker_total >= defender_total
  THEN [winner_id |-> attacker_fleet.user_id, loser_id |-> defender_fleet.user_id,
        outcome |-> IF attacker_total > defender_total THEN "Attacker wins"
                    ELSE "Tie - Defender wins by default"]
  ELSE [winner_id |-> defender_fleet.user_id, loser_id |-> attacker_fleet.user_id,
        outcome |-> "Defender wins"]

\* mutant: a battle decided by the number of ship types
determine_winner_by_types(attacker_fleet, defender_fleet, attacker_total, defender_total) ==
  IF Cardinality(DOMAIN json_loads(attacker_fleet.ships))
       > Cardinality(DOMAIN json_loads(defender_fleet.ships))
  THEN [winner_id |-> attacker_fleet.user_id, loser_id |-> defender_fleet.user_id,
        outcome |-> "Attacker wins"]
  ELSE IF attacker_total < defender_total
  THEN [winner_id |-> defender_fleet.user_id, loser_id |-> attacker_fleet.user_id,
        outcome |-> "Defender wins"]
  ELSE [winner_id |-> defender_fleet.user_id, loser_id |-> attacker_fleet.user_id,
        outcome |-> "Tie - Defender wins by default"]

\* start_battle, "Determine winner"
determine_winner(attacker_fleet, defender_fleet, attacker_total, defender_total) ==
  IF attacker_total > defender_total
  THEN [winner_id |-> attacker_fleet.user_id, loser_id |-> defender_fleet.user_id,
        outcome |-> "Attacker wins"]
  ELSE IF defender_total > attacker_total
  THEN [winner_id |-> defender_fleet.user_id, loser_id |-> attacker_fleet.user_id,
        outcome |-> "Defender wins"]
  ELSE [winner_id |-> defender_fleet.user_id, loser_id |-> attacker_fleet.user_id,
        outcome |-> "Tie - Defender wins by default"]

\* mutant: a start_battle that reads the attacker fleet again for the total it
\* reports
battle_result_rereading(attacker_fleet, defender_fleet, battle_id) ==
  LET again == CHOOSE f \in user_fleets : f.id = attacker_fleet.id
      attacker_total == sum_values(json_loads(attacker_fleet.ships))
      defender_total == sum_values(json_loads(defender_fleet.ships))
      won == determine_winner(attacker_fleet, defender_fleet,
                              attacker_total, defender_total)
  IN [battle_id |-> battle_id,
      attacker_id |-> attacker_fleet.user_id,
      defender_id |-> defender_fleet.user_id,
      attacker_fleet_id |-> attacker_fleet.id,
      defender_fleet_id |-> defender_fleet.id,
      winner_id |-> won.winner_id,
      loser_id |-> won.loser_id,
      attacker_total_ships |-> sum_values(json_loads(again.ships)),
      defender_total_ships |-> defender_total,
      report |-> <<"Battle ID: ", battle_id, won.outcome, "!", "Attacker ships: ",
                   attacker_total, "Defender ships: ", defender_total>>]

\* start_battle, from "Parse ships" to the BattleResult
battle_result(attacker_fleet, defender_fleet, battle_id) ==
  LET attacker_total == sum_values(json_loads(attacker_fleet.ships))
      defender_total == sum_values(json_loads(defender_fleet.ships))
      won == determine_winner(attacker_fleet, defender_fleet,
                              attacker_total, defender_total)
  IN [battle_id |-> battle_id,
      attacker_id |-> attacker_fleet.user_id,
      defender_id |-> defender_fleet.user_id,
      attacker_fleet_id |-> attacker_fleet.id,
      defender_fleet_id |-> defender_fleet.id,
      winner_id |-> won.winner_id,
      loser_id |-> won.loser_id,
      attacker_total_ships |-> attacker_total,
      defender_total_ships |-> defender_total,
      report |-> <<"Battle ID: ", battle_id, won.outcome, "!", "Attacker ships: ",
                   attacker_total, "Defender ships: ", defender_total>>]

\* mutant: a start_battle that refuses a fleet without ships
start_battle_result_refusing_empty(current_user, attacker_fleet, defender_fleet, battle_id) ==
  IF attacker_fleet = NoRow
  THEN Wrapped("Error during battle: ", 404, "Attacker fleet not found")
  ELSE IF Str(attacker_fleet.user_id) # current_user.id
  THEN Wrapped("Error during battle: ", 403, "You do not own the attacker fleet")
  ELSE IF defender_fleet = NoRow
  THEN Wrapped("Error during battle: ", 404, "Defender fleet not found")
  ELSE IF Str(defender_fleet.user_id) = current_user.id
  THEN Wrapped("Error during battle: ", 400, "Cannot attack your own fleet")
  ELSE IF DOMAIN json_loads(attacker_fleet.ships) = {}
          \/ DOMAIN json_loads(defender_fleet.ships) = {}
  THEN Wrapped("Error during battle: ", 400, "Fleet has no ships")
  ELSE Result(200, <<>>, battle_result(attacker_fleet, defender_fleet, battle_id))

\* mutant: a start_battle without the check of the defender fleet's owner
start_battle_result_allowing_self(current_user, attacker_fleet, defender_fleet, battle_id) ==
  IF attacker_fleet = NoRow
  THEN Wrapped("Error during battle: ", 404, "Attacker fleet not found")
  ELSE IF Str(attacker_fleet.user_id) # current_user.id
  THEN Wrapped("Error during battle: ", 403, "You do not own the attacker fleet")
  ELSE IF defender_fleet = NoRow
  THEN Wrapped("Error during battle: ", 404, "Defender fleet not found")
  ELSE Result(200, <<>>, battle_result(attacker_fleet, defender_fleet, battle_id))

\* start_battle inside its try: every HTTPException raised there is caught by
\* "except Exception" and raised again as HTTPException(500)
start_battle_result(current_user, attacker_fleet, defender_fleet, battle_id) ==
  IF attacker_fleet = NoRow
  THEN Wrapped("Error during battle: ", 404, "Attacker fleet not found")
  ELSE IF Str(attacker_fleet.user_id) # current_user.id
  THEN Wrapped("Error during battle: ", 403, "You do not own the attacker fleet")
  ELSE IF defender_fleet = NoRow
  THEN Wrapped("Error during battle: ", 404, "Defender fleet not found")
  ELSE IF Str(defender_fleet.user_id) = current_user.id
  THEN Wrapped("Error during battle: ", 400, "Cannot attack your own fleet")
  ELSE Result(200, <<>>, battle_result(attacker_fleet, defender_fleet, battle_id))

\* UUID(text): the uuid a canonical text stands for
Uuid(text) == text[1]

\* the current_user of a request: Depends(get_current_user) on its bearer token
Callers == {get_current_user(token, now) : token \in Presentable}

FleetIds == 1..(MaxFleets + 1)

PlanetIds == {p.id : p \in planets}

\* the planets a client moves its fleets to: its own
PlanetsOf(current_user) ==
  {p.id : p \in {q \in planets : Str(q.user_id) = current_user.id}}

NotAuthenticated(op, arg, caller) ==
  /\ caller.status # 200
  /\ Respond(op, arg, caller)
  /\ UNCHANGED <<config, calls, connections, store, clock, tokens>>

StoreDown(op, arg, caller) ==
  /\ caller.status = 200
  /\ Respond(op, arg, DbDown)
  /\ UNCHANGED <<config, calls, connections, store, clock, tokens>>

\* create_user_fleet inside its try
create_user_fleet_result(current_user, planet_id, ships, name) ==
  IF {p \in planets : p.id = planet_id /\ Str(p.user_id) = current_user.id} = {}
  THEN Wrapped("Error creating user fleet: ", 404,
               "Planet not found or not owned by the user")
  ELSE Result(200, <<>>, [id |-> nextFleetId, user_id |-> current_user.id,
                          planet_id |-> planet_id, ships |-> ships, name |-> name])

\* POST /user-fleets/
create_user_fleet ==
  \E caller \in Callers, planet_id \in PlanetIds :
    LET arg == [caller |-> caller.out, planet_id |-> planet_id]
    IN
    \/ NotAuthenticated("create_user_fleet", arg, caller)
    \/ StoreDown("create_user_fleet", arg, caller)
    \/ /\ caller.status = 200
       /\ \E ships \in ShipDicts, name \in FleetNames :
            LET result == create_user_fleet_result(caller.out, planet_id, ships, name)
            IN
            /\ Respond("create_user_fleet", arg, result)
            /\ IF result.status = 200
               THEN /\ nextFleetId <= MaxFleets
                    /\ user_fleets' = user_fleets \cup
                         {[id |-> nextFleetId, user_id |-> Uuid(caller.out.id),
                           planet_id |-> planet_id, ships |-> json_dumps(ships),
                           name |-> name]}
                    /\ nextFleetId' = nextFleetId + 1
               ELSE UNCHANGED <<user_fleets, nextFleetId>>
            /\ UNCHANGED <<config, calls, connections, users, nextId, planets, battles, clock, tokens>>

\* update_user_fleet inside its try
update_user_fleet_result(current_user, user_fleet) ==
  IF user_fleet = NoRow
  THEN Wrapped("Error updating user fleet: ", 404, "User fleet not found")
  ELSE IF Str(user_fleet.user_id) # current_user.id
  THEN Wrapped("Error updating user fleet: ", 403, "Unauthorized to update this fleet")
  ELSE Result(200, <<>>, [message |-> "User fleet updated successfully"])

\* PUT /user-fleets/{user_fleet_id}
update_user_fleet ==
  \E caller \in Callers, user_fleet_id \in FleetIds :
    LET arg == [caller |-> caller.out, user_fleet_id |-> user_fleet_id]
    IN
    \/ NotAuthenticated("update_user_fleet", arg, caller)
    \/ StoreDown("update_user_fleet", arg, caller)
    \/ /\ caller.status = 200
       /\ \E user_fleet \in Fetchone(fleet_by_id(user_fleet_id)) :
            LET result == update_user_fleet_result(caller.out, user_fleet)
            IN
            /\ Respond("update_user_fleet", arg, result)
            /\ IF result.status = 200
               THEN \E planet_id \in PlanetsOf(caller.out), ships \in ShipDicts,
                       name \in FleetNames :
                      user_fleets' = (user_fleets \ {user_fleet}) \cup
                        {[user_fleet EXCEPT !.planet_id = planet_id,
                                            !.ships = json_dumps(ships),
                                            !.name = name]}
               ELSE UNCHANGED user_fleets
            /\ UNCHANGED <<config, calls, connections, users, nextId, planets, nextFleetId, battles, clock, tokens>>

\* mutant: a start_battle that stores the Battle Outcome it returns
start_battle_persisting ==
  \E caller \in Callers, attacker_fleet_id \in FleetIds, defender_fleet_id \in FleetIds :
    LET arg == [caller |-> caller.out, attacker_fleet_id |-> attacker_fleet_id,
                defender_fleet_id |-> defender_fleet_id]
    IN
    \/ NotAuthenticated("start_battle", arg, caller)
    \/ StoreDown("start_battle", arg, caller)
    \/ /\ caller.status = 200
       /\ \E attacker_fleet \in Fetchone(fleet_by_id(attacker_fleet_id)),
             defender_fleet \in Fetchone(fleet_by_id(defender_fleet_id)),
             battle_id \in BattleIds :
            LET result == start_battle_result(caller.out, attacker_fleet,
                                              defender_fleet, battle_id)
            IN
            /\ Respond("start_battle", arg, result)
            /\ battles' = IF result.status = 200 THEN battles \cup {result.out}
                          ELSE battles
       /\ UNCHANGED <<config, calls, connections, users, nextId, planets, user_fleets, nextFleetId,
                      clock, tokens>>

\* POST /user-battles/battle
start_battle ==
  \E caller \in Callers, attacker_fleet_id \in FleetIds, defender_fleet_id \in FleetIds :
    LET arg == [caller |-> caller.out, attacker_fleet_id |-> attacker_fleet_id,
                defender_fleet_id |-> defender_fleet_id]
    IN
    \/ NotAuthenticated("start_battle", arg, caller)
    \/ StoreDown("start_battle", arg, caller)
    \/ /\ caller.status = 200
       /\ \E attacker_fleet \in Fetchone(fleet_by_id(attacker_fleet_id)),
             defender_fleet \in Fetchone(fleet_by_id(defender_fleet_id)),
             battle_id \in BattleIds :
            Respond("start_battle", arg,
                    start_battle_result(caller.out, attacker_fleet, defender_fleet,
                                        battle_id))
       /\ UNCHANGED <<config, calls, connections, store, clock, tokens>>

\* the rows register_user("ann") and register_admin("bob") leave in an empty store
BattleUsers ==
  RegisteredUsers \cup
  {[id |-> 2, username |-> "bob", email |-> "b@x",
    password |-> hash_password("pw2", "s1"), is_admin |-> TRUE]}

\* two users, each with a planet and an access token of a login at time 0
InitBattle ==
  /\ SECRET_KEY = getenv(Unset, "your-secret-key")
  /\ REFRESH_SECRET_KEY = getenv(Unset, "your-refresh-secret-key")
  /\ users = BattleUsers
  /\ nextId = 3
  /\ planets = {[id |-> u.id, user_id |-> u.id] : u \in BattleUsers}
  /\ user_fleets = {}
  /\ nextFleetId = 1
  /\ battles = {}
  /\ calls = NoCalls
  /\ connections = 0
  /\ now = 0
  /\ ticks = 0
  /\ accessIssued = {create_access_token(login_payload(u), 0) : u \in BattleUsers}
  /\ refreshIssued = {}
  /\ refreshed = {}
  /\ resp = NoResponse

NextBattle ==
  \/ create_user_fleet
  \/ update_user_fleet
  \/ start_battle

SpecBattle == InitBattle /\ [][NextBattle]_vars

-----------------------------------------------------------------------------
(* start_battle statement by statement, among requests that run at the same time *)

\* start_battle up to conn = connect_to_db(): the caller is resolved and the
\* connection is open until the finally of the handler closes it
begin_battle ==
  \E c \in CallIds, caller \in Callers,
     attacker_fleet_id \in FleetIds, defender_fleet_id \in FleetIds :
    LET arg == [caller |-> caller.out, attacker_fleet_id |-> attacker_fleet_id,
                defender_fleet_id |-> defender_fleet_id]
    IN
    /\ calls[c].pc = "idle"
    /\ \/ NotAuthenticated("start_battle", arg, caller)
       \/ StoreDown("start_battle", arg, caller)
       \/ /\ caller.status = 200
          /\ calls' = [calls EXCEPT ![c] =
                         [pc |-> "read_attacker", current_user |-> caller.out,
                          attacker_fleet_id |-> attacker_fleet_id,
                          defender_fleet_id |-> defender_fleet_id,
                          attacker_fleet |-> NoRow]]
          /\ connections' = connections + 1
          /\ UNCHANGED <<config, store, clock, tokens, resp>>

\* "Get attacker fleet": the first SELECT and the two checks of its row
read_attacker ==
  \E c \in CallIds :
    LET call == calls[c]
        arg == [caller |-> call.current_user,
                attacker_fleet_id |-> call.attacker_fleet_id,
                defender_fleet_id |-> call.defender_fleet_id]
    IN
    /\ call.pc = "read_attacker"
    /\ \E attacker_fleet \in Fetchone(fleet_by_id(call.attacker_fleet_id)) :
         IF attacker_fleet = NoRow \/ Str(attacker_fleet.user_id) # call.current_user.id
         THEN /\ Respond("start_battle", arg,
                         start_battle_result(call.current_user, attacker_fleet, NoRow,
                                             <<>>))
              /\ calls' = [calls EXCEPT ![c] = Idle]
              /\ connections' = connections - 1
         ELSE /\ calls' = [calls EXCEPT ![c].pc = "read_defender",
                                        ![c].attacker_fleet = attacker_fleet]
              /\ UNCHANGED <<resp, connections>>
    /\ UNCHANGED <<config, store, clock, tokens>>

\* "Get defender fleet": the second SELECT, the two checks of its row, and the
\* rest of start_battle, which works on the two rows read
read_defender ==
  \E c \in CallIds :
    LET call == calls[c]
        arg == [caller |-> call.current_user,
                attacker_fleet_id |-> call.attacker_fleet_id,
                defender_fleet_id |-> call.defender_fleet_id]
    IN
    /\ call.pc = "read_defender"
    /\ \E defender_fleet \in Fetchone(fleet_by_id(call.defender_fleet_id)),
          battle_id \in BattleIds :
         Respond("start_battle", arg,
                 start_battle_result(call.current_user, call.attacker_fleet,
                                     defender_fleet, battle_id))
    /\ calls' = [calls EXCEPT ![c] = Idle]
    /\ connections' = connections - 1
    /\ UNCHANGED <<config, store, clock, tokens>>

\* the two users of InitBattle, each with one fleet
InitRace ==
  /\ SECRET_KEY = getenv(Unset, "your-secret-key")
  /\ REFRESH_SECRET_KEY = getenv(Unset, "your-refresh-secret-key")
  /\ users = BattleUsers
  /\ nextId = 3
  /\ planets = {[id |-> u.id, user_id |-> u.id] : u \in BattleUsers}
  /\ user_fleets = {[id |-> u.id, user_id |-> u.id, planet_id |-> u.id,
                     ships |-> json_dumps(NoShips), name |-> "alpha"] : u \in BattleUsers}
  /\ nextFleetId = 3
  /\ battles = {}
  /\ calls = NoCalls
  /\ connections = 0
  /\ now = 0
  /\ ticks = 0
  /\ accessIssued = {create_access_token(login_payload(u), 0) : u \in BattleUsers}
  /\ refreshIssued = {}
  /\ refreshed = {}
  /\ resp = NoResponse

NextRace ==
  \/ begin_battle
  \/ read_attacker
  \/ read_defender
  \/ update_user_fleet

SpecRace == InitRace /\ [][NextRace]_vars

-----------------------------------------------------------------------------
(* The fleets of two users, read, changed and deleted by id *)

\* get_user_fleet, after the SELECT returned user_fleet: the two raises stand
\* after the try
get_user_fleet_result(current_user, user_fleet) ==
  IF user_fleet = NoRow
  THEN Result(404, <<"User fleet not found">>, <<>>)
  ELSE IF Str(user_fleet.user_id) # current_user.id
  THEN Result(403, <<"Unauthorized to view this fleet">>, <<>>)
  ELSE Result(200, <<>>, [id |-> user_fleet.id, user_id |-> user_fleet.user_id,
                          planet_id |-> user_fleet.planet_id,
                          ships |-> json_loads(user_fleet.ships),
                          name |-> user_fleet.name])

\* GET /user-fleets/{user_fleet_id}
get_user_fleet ==
  \E caller \in Callers, user_fleet_id \in FleetIds :
    LET arg == [caller |-> caller.out, user_fleet_id |-> user_fleet_id]
    IN
    \/ NotAuthenticated("get_user_fleet", arg, caller)
    \/ StoreDown("get_user_fleet", arg, caller)
    \/ /\ caller.status = 200
       /\ \E user_fleet \in Fetchone(fleet_by_id(user_fleet_id)) :
            Respond("get_user_fleet", arg, get_user_fleet_result(caller.out, user_fleet))
       /\ UNCHANGED <<config, calls, connections, store, clock, tokens>>

\* mutant: a delete_user_fleet that an admin may use on every fleet
delete_user_fleet_result_admin_too(current_user, user_fleet) ==
  IF user_fleet = NoRow
  THEN Wrapped("Error deleting user fleet: ", 404, "User fleet not found")
  ELSE IF Str(user_fleet.user_id) # current_user.id /\ ~current_user.is_admin
  THEN Wrapped("Error deleting user fleet: ", 403, "Unauthorized to delete this fleet")
  ELSE Result(200, <<>>, [message |-> "User fleet deleted successfully"])

\* delete_user_fleet inside its try
delete_user_fleet_result(current_user, user_fleet) ==
  IF user_fleet = NoRow
  THEN Wrapped("Error deleting user fleet: ", 404, "User fleet not found")
  ELSE IF Str(user_fleet.user_id) # current_user.id
  THEN Wrapped("Error deleting user fleet: ", 403, "Unauthorized to delete this fleet")
  ELSE Result(200, <<>>, [message |-> "User fleet deleted successfully"])

\* DELETE /user-fleets/{user_fleet_id}
delete_user_fleet ==
  \E caller \in Callers, user_fleet_id \in FleetIds :
    LET arg == [caller |-> caller.out, user_fleet_id |-> user_fleet_id]
    IN
    \/ NotAuthenticated("delete_user_fleet", arg, caller)
    \/ StoreDown("delete_user_fleet", arg, caller)
    \/ /\ caller.status = 200
       /\ \E user_fleet \in Fetchone(fleet_by_id(user_fleet_id)) :
            LET result == delete_user_fleet_result(caller.out, user_fleet)
            IN
            /\ Respond("delete_user_fleet", arg, result)
            /\ user_fleets' = IF result.status = 200
                              THEN user_fleets \ fleet_by_id(user_fleet_id)
                              ELSE user_fleets
       /\ UNCHANGED <<config, calls, connections, users, nextId, planets, nextFleetId, battles,
                      clock, tokens>>

NextFleets ==
  \/ get_user_fleet
  \/ update_user_fleet
  \/ delete_user_fleet

\* from the two users of InitRace, each with one fleet
SpecFleets == InitRace /\ [][NextFleets]_vars

-----------------------------------------------------------------------------
(* Administration of the credential records *)

\* a path parameter that UUID(user_id) refuses with ValueError: a text that is
\* the canonical text of no uuid
BadUuid == <<0, 0>>

\* the user_id path parameters of a request
UserIdTexts == {Str(id) : id \in 1..(MaxUsers + 1)} \cup {BadUuid}

\* the rows of SELECT id FROM users WHERE id = %s
user_by_id(user_uuid) == {u \in users : u.id = user_uuid}

\* mutant: an update_user that any authenticated caller may use
update_user_result_for_everyone(current_user, user_id, up) ==
  IF user_id = BadUuid
  THEN Result(400, <<"Invalid user ID format">>, <<>>)
  ELSE IF ~up
  THEN DbDown
  ELSE IF user_by_id(Uuid(user_id)) = {}
  THEN Wrapped("Error updating user: ", 404, "User not found")
  ELSE Result(200, <<>>, [message |-> "User updated successfully"])

\* auth update_user, from UUID(user_id) to the end
update_user_result(current_user, user_id, up) ==
  IF user_id = BadUuid
  THEN Result(400, <<"Invalid user ID format">>, <<>>)
  ELSE IF ~current_user.is_admin
  THEN Result(403, <<"Only admins can update user data">>, <<>>)
  ELSE IF ~up
  THEN DbDown
  ELSE IF user_by_id(Uuid(user_id)) = {}
  THEN Wrapped("Error updating user: ", 404, "User not found")
  ELSE Result(200, <<>>, [message |-> "User updated successfully"])

\* UPDATE users SET username = %s, email = %s, is_admin = %s WHERE id = %s
UpdateUsers(user_uuid, username, email, is_admin) ==
  {IF u.id = user_uuid
   THEN [u EXCEPT !.username = username, !.email = email, !.is_admin = is_admin]
   ELSE u : u \in users}

\* PUT /auth/update_user/{user_id}
update_user ==
  \E caller \in Callers, user_id \in UserIdTexts :
    \/ NotAuthenticated("update_user", [caller |-> caller.out, user_id |-> user_id],
                        caller)
    \/ /\ caller.status = 200
       /\ \E up \in BOOLEAN :
            LET arg == [caller |-> caller.out, user_id |-> user_id]
                result == update_user_result(caller.out, user_id, up)
            IN
            /\ Respond("update_user", arg, result)
            /\ IF result.status = 200
               THEN \E username \in Usernames, email \in Emails, is_admin \in BOOLEAN :
                      users' = UpdateUsers(Uuid(user_id), username, email, is_admin)
               ELSE UNCHANGED users
       /\ UNCHANGED <<config, calls, connections, nextId, planets, user_fleets, nextFleetId,
                      battles, clock, tokens>>

\* users update_user, whose user_id is a UUID when the handler runs
users_update_user_result(current_user, user_id, up) ==
  IF ~current_user.is_admin
  THEN Result(403, <<"Only admins can update users">>, <<>>)
  ELSE IF ~up
  THEN DbDown
  ELSE IF user_by_id(Uuid(user_id)) = {}
  THEN Wrapped("Error updating user: ", 404, "User not found")
  ELSE Result(200, <<>>, [message |-> "User updated successfully"])

\* PUT /users/{user_id}
users_update_user ==
  \E caller \in Callers, user_id \in UserIdTexts \ {BadUuid} :
    \/ NotAuthenticated("users_update_user",
                        [caller |-> caller.out, user_id |-> user_id], caller)
    \/ /\ caller.status = 200
       /\ \E up \in BOOLEAN :
            LET arg == [caller |-> caller.out, user_id |-> user_id]
                result == users_update_user_result(caller.out, user_id, up)
            IN
            /\ Respond("users_update_user", arg, result)
            /\ IF result.status = 200
               THEN \E username \in Usernames, email \in Emails, is_admin \in BOOLEAN :
                      users' = UpdateUsers(Uuid(user_id), username, email, is_admin)
               ELSE UNCHANGED users
       /\ UNCHANGED <<config, calls, connections, nextId, planets, user_fleets, nextFleetId,
                      battles, clock, tokens>>

\* auth delete_user, from UUID(user_id) to the end
delete_user_result(current_user, user_id, up) ==
  IF user_id = BadUuid
  THEN Result(400, <<"Invalid user ID format">>, <<>>)
  ELSE IF ~current_user.is_admin
  THEN Result(403, <<"Only admins can delete users">>, <<>>)
  ELSE IF ~up
  THEN DbDown
  ELSE IF user_by_id(Uuid(user_id)) = {}
  THEN Wrapped("Error deleting user: ", 404, "User not found")
  ELSE Result(200, <<>>, [message |-> "User deleted successfully"])

\* DELETE /auth/delete_user/{user_id}
delete_user ==
  \E caller \in Callers, user_id \in UserIdTexts :
    LET arg == [caller |-> caller.out, user_id |-> user_id]
    IN
    \/ NotAuthenticated("delete_user", arg, caller)
    \/ /\ caller.status = 200
       /\ \E up \in BOOLEAN :
            LET result == delete_user_result(caller.out, user_id, up)
            IN
            /\ Respond("delete_user", arg, result)
            /\ users' = IF result.status = 200
                        THEN users \ user_by_id(Uuid(user_id))
                        ELSE users
       /\ UNCHANGED <<config, calls, connections, nextId, planets, user_fleets, nextFleetId,
                      battles, clock, tokens>>

\* users delete_user, which looks at is_admin before it parses user_id
users_delete_user_result(current_user, user_id, up) ==
  IF ~current_user.is_admin
  THEN Result(403, <<"Only admins can delete users">>, <<>>)
  ELSE IF user_id = BadUuid
  THEN Result(400, <<"Invalid user ID format">>, <<>>)
  ELSE IF ~up
  THEN DbDown
  ELSE IF user_by_id(Uuid(user_id)) = {}
  THEN Wrapped("Error deleting user: ", 404, "User not found")
  ELSE Result(200, <<>>, [message |-> "User deleted successfully"])

\* DELETE /users/{user_id}
users_delete_user ==
  \E caller \in Callers, user_id \in UserIdTexts :
    LET arg == [caller |-> caller.out, user_id |-> user_id]
    IN
    \/ NotAuthenticated("users_delete_user", arg, caller)
    \/ /\ caller.status = 200
       /\ \E up \in BOOLEAN :
            LET result == users_delete_user_result(caller.out, user_id, up)
            IN
            /\ Respond("users_delete_user", arg, result)
            /\ users' = IF result.status = 200
                        THEN users \ user_by_id(Uuid(user_id))
                        ELSE users
       /\ UNCHANGED <<config, calls, connections, nextId, planets, user_fleets, nextFleetId,
                      battles, clock, tokens>>

NextAdmin ==
  \/ register_user
  \/ register_admin
  \/ update_user
  \/ users_update_user
  \/ delete_user
  \/ resolve_caller

\* from the two users of InitBattle, each holding the access token of its login
SpecAdmin == InitBattle /\ [][NextAdmin]_vars

\* the four handlers that change or remove a credential record by its id
NextGuard ==
  \/ update_user
  \/ users_update_user
  \/ delete_user
  \/ users_delete_user

SpecGuard == InitBattle /\ [][NextGuard]_vars

-----------------------------------------------------------------------------
(* The planets and /users/me, which look the caller up by username *)

\* the planet_id path parameters of a request
PlanetIdTexts == {Str(id) : id \in 1..MaxPlanets} \cup {BadUuid}

\* the rows of SELECT ... FROM planets WHERE id = %s
planet_by_id(planet_id) == {p \in planets : p.id = planet_id}

\* uuid4(): an id no stored planet has
FreshPlanetIds == {id \in 1..MaxPlanets : planet_by_id(id) = {}}

\* validate_uuid raises for a text that is no uuid
InvalidUuid == Result(400, <<"Invalid UUID format">>, <<>>)

UserNotFound == Result(404, <<"User not found">>, <<>>)

\* a handler raises with the connection it opened left open, while the
\* database server has a connection to give
LeaveOpen ==
  /\ connections < MaxConnections
  /\ connections' = connections + 1

\* GET /users/me, after get_user_by_username(current_user.username) returned user
read_users_me_result(user) ==
  IF user = NoRow
  THEN UserNotFound
  ELSE Result(200, <<>>, [id |-> Str(user.id), username |-> user.username,
                          email |-> user.email, is_admin |-> user.is_admin])

\* GET /users/me
read_users_me ==
  \E caller \in Callers :
    LET arg == [caller |-> caller.out]
    IN
    \/ NotAuthenticated("read_users_me", arg, caller)
    \/ StoreDown("read_users_me", arg, caller)
    \/ /\ caller.status = 200
       /\ \E user \in Fetchone(get_user_by_username(caller.out.username)) :
            Respond("read_users_me", arg, read_users_me_result(user))
       /\ UNCHANGED <<config, calls, connections, store, clock, tokens>>

\* create_planet, after conn = connect_to_db() and get_user_by_username
create_planet_result(user, planet_id) ==
  IF user = NoRow
  THEN UserNotFound
  ELSE Result(200, <<>>, [id |-> Str(planet_id), owner_id |-> Str(user.id)])

\* POST /planets/: the 404 of a caller without a row is raised between
\* connect_to_db() and the try whose finally closes the connection
create_planet ==
  \E caller \in Callers :
    LET arg == [caller |-> caller.out, planet_id |-> <<>>]
    IN
    \/ NotAuthenticated("create_planet", arg, caller)
    \/ StoreDown("create_planet", arg, caller)
    \/ /\ caller.status = 200
       /\ \E user \in Fetchone(get_user_by_username(caller.out.username)),
             planet_id \in FreshPlanetIds :
            LET result == create_planet_result(user, planet_id)
            IN
            /\ Respond("create_planet", arg, result)
            /\ IF result.status = 200
               THEN /\ planets' = planets \cup {[id |-> planet_id, user_id |-> user.id]}
                    /\ UNCHANGED connections
               ELSE /\ LeaveOpen
                    /\ UNCHANGED planets
       /\ UNCHANGED <<config, calls, users, nextId, user_fleets, nextFleetId, battles,
                      clock, tokens>>

\* read_all_planets, after get_user_by_username
read_all_planets_result(user) ==
  IF user = NoRow
  THEN UserNotFound
  ELSE Result(200, <<>>, {[id |-> p.id] : p \in {q \in planets : q.user_id = user.id}})

\* GET /planets/
read_all_planets ==
  \E caller \in Callers :
    LET arg == [caller |-> caller.out, planet_id |-> <<>>]
    IN
    \/ NotAuthenticated("read_all_planets", arg, caller)
    \/ StoreDown("read_all_planets", arg, caller)
    \/ /\ caller.status = 200
       /\ \E user \in Fetchone(get_user_by_username(caller.out.username)) :
            Respond("read_all_planets", arg, read_all_planets_result(user))
       /\ UNCHANGED <<config, calls, connections, store, clock, tokens>>

\* update_planet and delete_planet, from validate_uuid to the end: user is the
\* row of get_user_by_username, existing_planet the row of the SELECT in the try
own_planet_result(what, denied, done, planet_id, user, existing_planet) ==
  IF planet_id = BadUuid
  THEN InvalidUuid
  ELSE IF user = NoRow
  THEN UserNotFound
  ELSE IF existing_planet = NoRow
  THEN Wrapped(what, 404, "Planet not found")
  ELSE IF existing_planet.user_id # user.id
  THEN Wrapped(what, 403, denied)
  ELSE Result(200, <<>>, [message |-> done])

\* the row of SELECT user_id FROM planets WHERE id = %s for a path parameter
SelectPlanet(planet_id) ==
  IF planet_id = BadUuid THEN {NoRow} ELSE Fetchone(planet_by_id(Uuid(planet_id)))

\* PUT /planets/{planet_id}: the columns it sets are not among the modelled ones
update_planet ==
  \E caller \in Callers, planet_id \in PlanetIdTexts :
    LET arg == [caller |-> caller.out, planet_id |-> planet_id]
    IN
    \/ NotAuthenticated("update_planet", arg, caller)
    \/ StoreDown("update_planet", arg, caller)
    \/ /\ caller.status = 200
       /\ \E user \in Fetchone(get_user_by_username(caller.out.username)),
             existing_planet \in SelectPlanet(planet_id) :
            Respond("update_planet", arg,
                    own_planet_result("Error updating planet: ",
                                      "Unauthorized to update this planet",
                                      "Planet updated successfully",
                                      planet_id, user, existing_planet))
       /\ UNCHANGED <<config, calls, connections, store, clock, tokens>>

\* DELETE /planets/{planet_id}
delete_planet ==
  \E caller \in Callers, planet_id \in PlanetIdTexts :
    LET arg == [caller |-> caller.out, planet_id |-> planet_id]
    IN
    \/ NotAuthenticated("delete_planet", arg, caller)
    \/ StoreDown("delete_planet", arg, caller)
    \/ /\ caller.status = 200
       /\ \E user \in Fetchone(get_user_by_username(caller.out.username)),
             existing_planet \in SelectPlanet(planet_id) :
            LET result == own_planet_result("Error deleting planet: ",
                                            "Unauthorized to delete this planet",
                                            "Planet deleted successfully",
                                            planet_id, user, existing_planet)
            IN
            /\ Respond("delete_planet", arg, result)
            /\ planets' = IF result.status = 200
                          THEN planets \ {existing_planet}
                          ELSE planets
       /\ UNCHANGED <<config, calls, connections, users, nextId, user_fleets, nextFleetId,
                      battles, clock, tokens>>

\* claim_planet, from validate_uuid to the end
claim_planet_result(planet_id, user, planet) ==
  IF planet_id = BadUuid
  THEN InvalidUuid
  ELSE IF user = NoRow
  THEN UserNotFound
  ELSE IF planet = NoRow
  THEN Wrapped("Error claiming planet: ", 404, "Planet not found")
  ELSE IF planet.user_id = user.id
  THEN Wrapped("Error claiming planet: ", 400, "Planet already claimed by you")
  ELSE Result(200, <<>>, [message |-> "Planet claimed successfully"])

\* PUT /planets/{planet_id}/claim: as in create_planet, the 404 of a caller
\* without a row is raised between connect_to_db() and the try
claim_planet ==
  \E caller \in Callers, planet_id \in PlanetIdTexts :
    LET arg == [caller |-> caller.out, planet_id |-> planet_id]
    IN
    \/ NotAuthenticated("claim_planet", arg, caller)
    \/ StoreDown("claim_planet", arg, caller)
    \/ /\ caller.status = 200
       /\ \E user \in Fetchone(get_user_by_username(caller.out.username)),
             planet \in SelectPlanet(planet_id) :
            LET result == claim_planet_result(planet_id, user, planet)
            IN
            /\ Respond("claim_planet", arg, result)
            /\ planets' = IF result.status = 200
                          THEN (planets \ {planet}) \cup {[planet EXCEPT !.user_id = user.id]}
                          ELSE planets
            /\ IF result = UserNotFound THEN LeaveOpen ELSE UNCHANGED connections
       /\ UNCHANGED <<config, calls, users, nextId, user_fleets, nextFleetId, battles,
                      clock, tokens>>

NextPlanets ==
  \/ update_user
  \/ delete_user
  \/ read_users_me
  \/ create_planet
  \/ read_all_planets
  \/ update_planet
  \/ delete_planet
  \/ claim_planet

\* the two users of InitBattle, each with the access token of its login, before
\* a planet is created
InitPlanets ==
  /\ SECRET_KEY = getenv(Unset, "your-secret-key")
  /\ REFRESH_SECRET_KEY = getenv(Unset, "your-refresh-secret-key")
  /\ users = BattleUsers
  /\ nextId = 3
  /\ planets = {}
  /\ user_fleets = {}
  /\ nextFleetId = 1
  /\ battles = {}
  /\ calls = NoCalls
  /\ connections = 0
  /\ now = 0
  /\ ticks = 0
  /\ accessIssued = {create_access_token(login_payload(u), 0) : u \in BattleUsers}
  /\ refreshIssued = {}
  /\ refreshed = {}
  /\ resp = NoResponse

SpecPlanets == InitPlanets /\ [][NextPlanets]_vars

-----------------------------------------------------------------------------
(* create_battle: the battle of the caller against an opponent named by id *)

\* winner_id = None, stored as NULL
Null == 0

\* SELECT FLOOR(RANDOM() * 100 + 1)::int: the fleet sizes the database draws
FleetSizes == {1, 2}

\* the opponent_id of a BattleCreateRequest, a UUID
OpponentIds == 1..(MaxUsers + 1)

\* "Determine winner" of create_battle
create_battle_winner(user1, user2, fleet1, fleet2) ==
  IF fleet1 > fleet2
  THEN [winner_id |-> user1.id, winner_name |-> user1.username]
  ELSE IF fleet2 > fleet1
  THEN [winner_id |-> user2.id, winner_name |-> user2.username]
  ELSE [winner_id |-> Null, winner_name |-> "Draw"]

\* mutant: a create_battle in which the caller wins a draw
create_battle_result_caller_wins_draw(current_user, opponent_id, user1, user2, fleet1, fleet2, battle_id) ==
  IF user2 = NoRow
  THEN Wrapped("Battle error: ", 404, "Opponent not found")
  ELSE IF Str(opponent_id) = current_user.id
  THEN Wrapped("Battle error: ", 400, "Cannot battle yourself")
  ELSE IF user1 = NoRow
  THEN Result(500, <<"Battle error: ", "'NoneType' object is not subscriptable">>, <<>>)
  ELSE LET won == IF fleet1 = fleet2
                  THEN [winner_id |-> user1.id, winner_name |-> user1.username]
                  ELSE create_battle_winner(user1, user2, fleet1, fleet2)
       IN Result(200, <<>>,
                 [battle_id |-> battle_id, user_1 |-> user1.username,
                  user_2 |-> user2.username, winner |-> won.winner_name,
                  winner_id |-> won.winner_id,
                  report |-> <<user1.username, fleet1, user2.username, fleet2,
                               won.winner_name>>])

\* create_battle inside its try, user1 and user2 being the rows of the two
\* get_user_by_id; out carries the winner_id of the row next to the response
create_battle_result(current_user, opponent_id, user1, user2, fleet1, fleet2, battle_id) ==
  IF user2 = NoRow
  THEN Wrapped("Battle error: ", 404, "Opponent not found")
  ELSE IF Str(opponent_id) = current_user.id
  THEN Wrapped("Battle error: ", 400, "Cannot battle yourself")
  ELSE IF user1 = NoRow
  THEN Result(500, <<"Battle error: ", "'NoneType' object is not subscriptable">>, <<>>)
  ELSE LET won == create_battle_winner(user1, user2, fleet1, fleet2)
       IN Result(200, <<>>,
                 [battle_id |-> battle_id, user_1 |-> user1.username,
                  user_2 |-> user2.username, winner |-> won.winner_name,
                  winner_id |-> won.winner_id,
                  report |-> <<user1.username, fleet1, user2.username, fleet2,
                               won.winner_name>>])

\* POST /create_battle of battles/endpoints.py
create_battle ==
  \E caller \in Callers, opponent_id \in OpponentIds :
    LET arg == [caller |-> caller.out, opponent_id |-> opponent_id]
    IN
    \/ NotAuthenticated("create_battle", arg, caller)
    \/ StoreDown("create_battle", arg, caller)
    \/ /\ caller.status = 200
       /\ \E user1 \in Fetchone(user_by_id(Uuid(caller.out.id))),
             user2 \in Fetchone(user_by_id(opponent_id)),
             fleet1 \in FleetSizes, fleet2 \in FleetSizes, battle_id \in BattleIds :
            LET result == create_battle_result(caller.out, opponent_id, user1, user2,
                                               fleet1, fleet2, battle_id)
            IN
            /\ Respond("create_battle", arg, result)
            /\ IF result.status = 200
               THEN /\ \A b \in battles : b.id # battle_id
                    /\ battles' = battles \cup
                         {[id |-> battle_id, user_1_id |-> user1.id,
                           user_2_id |-> user2.id, winner_id |-> result.out.winner_id,
                           report |-> result.out.report]}
               ELSE UNCHANGED battles
       /\ UNCHANGED <<config, calls, connections, users, nextId, planets, user_fleets,
                      nextFleetId, clock, tokens>>

NextCreateBattle ==
  \/ create_battle
  \/ delete_user

\* from the two users of InitBattle, each holding the access token of its login
SpecCreateBattle == InitBattle /\ [][NextCreateBattle]_vars

-----------------------------------------------------------------------------
(* An admin who keeps the newest pair while the credential records are administered *)

\* the row register_admin("bob") leaves in an empty store
RegisteredAdmin ==
  {[id |-> 1, username |-> "bob", email |-> "b@x",
    password |-> hash_password("pw2", "s1"), is_admin |-> TRUE]}

\* the response of the login of the registered admin at time 0
AdminLogin ==
  LET user == CHOOSE u \in RegisteredAdmin : TRUE
  IN login_result("pw2", user, 0).out

InitOutlive ==
  /\ SECRET_KEY = getenv(Unset, "your-secret-key")
  /\ REFRESH_SECRET_KEY = getenv(Unset, "your-refresh-secret-key")
  /\ users = RegisteredAdmin
  /\ nextId = 2
  /\ planets = {}
  /\ user_fleets = {}
  /\ nextFleetId = 1
  /\ battles = {}
  /\ calls = NoCalls
  /\ connections = 0
  /\ now = 0
  /\ ticks = 0
  /\ accessIssued = {AdminLogin.access_token}
  /\ refreshIssued = {AdminLogin.refresh_token}
  /\ refreshed = {}
  /\ resp = NoResponse

NextOutlive ==
  \/ Tick
  \/ refresh_newest
  \/ update_user
  \/ delete_user

SpecOutlive == InitOutlive /\ [][NextOutlive]_vars

-----------------------------------------------------------------------------
(* Properties of the battle *)

\* the stored fleet a start_battle request names, or NoRow
Named(fleet_id) ==
  IF fleet_by_id(fleet_id) = {} THEN NoRow
  ELSE CHOOSE f \in fleet_by_id(fleet_id) : TRUE

Total(fleet) == sum_values(json_loads(fleet.ships))

\* a start_battle request of an authenticated caller that reached the store
BattleReached ==
  /\ resp.op = "start_battle"
  /\ resp.arg.caller # <<>>
  /\ resp.detail # DbDown.detail

\* a start_battle request that returned a Battle Outcome
BattleFought == resp.op = "start_battle" /\ resp.status = 200

\* C2: when the two fleets have equal totals (0 and 0 included) the defender
\* fleet's owner is the winner, the attacker fleet's owner the loser, and the
\* report says "Tie - Defender wins by default".
C2_TieGoesToDefender ==
  BattleFought =>
    LET a == Named(resp.arg.attacker_fleet_id)
        d == Named(resp.arg.defender_fleet_id)
    IN Total(a) = Total(d) =>
         /\ resp.out.winner_id = d.user_id
         /\ resp.out.loser_id = a.user_id
         /\ resp.out.winner_id # a.user_id
         /\ resp.out.report[3] = "Tie - Defender wins by default"

C2_Witness ==
  /\ BattleFought
  /\ Total(Named(resp.arg.attacker_fleet_id)) = 0
  /\ Total(Named(resp.arg.defender_fleet_id)) = 0
  /\ resp.out.winner_id = Named(resp.arg.defender_fleet_id).user_id

\* C3: when the totals differ the owner of the fleet with the larger sum of
\* ship counts wins and the other owner loses, the report says "Attacker wins"
\* or "Defender wins" accordingly, and the two reported totals are the two
\* sums, whatever the ship types are.
C3_LargerTotalWins ==
  BattleFought =>
    LET a == Named(resp.arg.attacker_fleet_id)
        d == Named(resp.arg.defender_fleet_id)
    IN /\ resp.out.attacker_total_ships = Total(a)
       /\ resp.out.defender_total_ships = Total(d)
       /\ Total(a) > Total(d) =>
            /\ resp.out.winner_id = a.user_id
            /\ resp.out.loser_id = d.user_id
            /\ resp.out.report[3] = "Attacker wins"
       /\ Total(d) > Total(a) =>
            /\ resp.out.winner_id = d.user_id
            /\ resp.out.loser_id = a.user_id
            /\ resp.out.report[3] = "Defender wins"

\* the defender wins with the larger total although it has fewer ship types
C3_Witness ==
  /\ BattleFought
  /\ Total(Named(resp.arg.defender_fleet_id)) > Total(Named(resp.arg.attacker_fleet_id))
  /\ Cardinality(DOMAIN json_loads(Named(resp.arg.defender_fleet_id).ships))
       < Cardinality(DOMAIN json_loads(Named(resp.arg.attacker_fleet_id).ships))
  /\ resp.out.winner_id = Named(resp.arg.defender_fleet_id).user_id

\* C4: a start_battle whose defender fleet belongs to the caller fails with the
\* client error 400 "Cannot attack your own fleet", not with the internal
\* server error, and returns no Battle Outcome.
C4_SelfBattleIsClientError ==
  (/\ BattleReached
   /\ Named(resp.arg.attacker_fleet_id) # NoRow
   /\ Named(resp.arg.defender_fleet_id) # NoRow
   /\ Str(Named(resp.arg.attacker_fleet_id).user_id) = resp.arg.caller.id
   /\ Str(Named(resp.arg.defender_fleet_id).user_id) = resp.arg.caller.id)
  => /\ resp.status = 400
     /\ resp.out = <<>>

\* C5: a missing attacker fleet is answered 404, an attacker fleet of another
\* user 403, a missing defender fleet 404; none of them with the status 500 of
\* a store failure.
C5_PreconditionErrorsDistinct ==
  BattleReached =>
    LET a == Named(resp.arg.attacker_fleet_id)
        d == Named(resp.arg.defender_fleet_id)
    IN /\ a = NoRow => resp.status = 404
       /\ (a # NoRow /\ Str(a.user_id) # resp.arg.caller.id) => resp.status = 403
       /\ (a # NoRow /\ Str(a.user_id) = resp.arg.caller.id /\ d = NoRow)
            => resp.status = 404

\* the fleet has no ship: no ship type, or every count zero
EmptyFleet(fleet) == \A t \in DOMAIN json_loads(fleet.ships) : json_loads(fleet.ships)[t] = 0

\* C17: a fleet without ships has total 0 and may fight on either side: a battle
\* of a caller's fleet against another user's fleet in which a fleet is empty
\* returns an outcome and no error, the empty fleet's owner loses against a
\* fleet of positive total, and an empty attacker loses to an empty defender.
C17_EmptyFleetFights ==
  BattleReached =>
    LET a == Named(resp.arg.attacker_fleet_id)
        d == Named(resp.arg.defender_fleet_id)
    IN (/\ a # NoRow
        /\ d # NoRow
        /\ Str(a.user_id) = resp.arg.caller.id
        /\ Str(d.user_id) # resp.arg.caller.id
        /\ EmptyFleet(a) \/ EmptyFleet(d))
       => /\ resp.status = 200
          /\ EmptyFleet(a) => resp.out.attacker_total_ships = 0
          /\ EmptyFleet(d) => resp.out.defender_total_ships = 0
          /\ (EmptyFleet(d) /\ resp.out.attacker_total_ships > 0)
               => /\ resp.out.loser_id = d.user_id
                  /\ resp.out.winner_id = a.user_id
          /\ (EmptyFleet(a) /\ (EmptyFleet(d) \/ resp.out.defender_total_ships > 0))
               => /\ resp.out.winner_id = d.user_id
                  /\ resp.out.loser_id = a.user_id

\* a fleet without ship types attacks a fleet whose counts are all zero
C17_Witness ==
  /\ BattleFought
  /\ json_loads(Named(resp.arg.attacker_fleet_id).ships) = NoShips
  /\ json_loads(Named(resp.arg.defender_fleet_id).ships) = [t \in ShipTypes |-> 0]
  /\ resp.out.loser_id = Named(resp.arg.attacker_fleet_id).user_id

\* C18: every stored fleet maps its ship types to non-negative integers, and the
\* two totals of every Battle Outcome are non-negative integers.
C18_CountsNonNegative ==
  /\ \A f \in user_fleets :
       \A t \in DOMAIN json_loads(f.ships) : json_loads(f.ships)[t] \in Nat
  /\ BattleFought => /\ resp.out.attacker_total_ships \in Nat
                     /\ resp.out.defender_total_ships \in Nat

C15_StartBattleReadsOnly ==
  [][resp'.op = "start_battle"
     => /\ users' = users
        /\ user_fleets' = user_fleets
        /\ battles' = battles
        /\ planets' = planets]_vars

\* a battle was fought and no outcome is stored
C15_Witness ==
  /\ BattleFought
  /\ resp.out.winner_id # resp.out.loser_id
  /\ battles = {}

\* C23: in every Battle Outcome start_battle returns, attacker_id is the
\* caller's id, attacker_id and defender_id differ, winner_id and loser_id
\* differ, and the winner and the loser are the attacker and the defender.
C23_OutcomeParticipants ==
  BattleFought =>
    /\ Str(resp.out.attacker_id) = resp.arg.caller.id
    /\ resp.out.attacker_id # resp.out.defender_id
    /\ resp.out.winner_id # resp.out.loser_id
    /\ {resp.out.winner_id, resp.out.loser_id}
         = {resp.out.attacker_id, resp.out.defender_id}

\* the caller's fleet won against the fleet of the other user
C23_Witness ==
  /\ BattleFought
  /\ Str(resp.out.winner_id) = resp.arg.caller.id
  /\ resp.out.loser_id = resp.out.defender_id
  /\ resp.out.attacker_total_ships > resp.out.defender_total_ships

\* C30 as stated: every battles row of create_battle has a winner that is one
\* of its two participants.
C30_WinnerIsParticipant ==
  \A b \in battles : b.winner_id \in {b.user_1_id, b.user_2_id}

\* C30: a create_battle that succeeds inserts exactly one battles row, of the
\* caller and of an opponent who is another user, whose winner is the user with
\* the strictly larger fleet size, and NULL when the two sizes are equal; one
\* that fails, as every call with the caller as the opponent does, inserts none.
C30_BattleRowPerCall ==
  [][resp'.op = "create_battle" =>
       IF resp'.status = 200
       THEN /\ Cardinality(battles') = Cardinality(battles) + 1
            /\ battles \subseteq battles'
            /\ Str(resp'.arg.opponent_id) # resp'.arg.caller.id
            /\ \A b \in battles' \ battles :
                 /\ Str(b.user_1_id) = resp'.arg.caller.id
                 /\ b.user_2_id = resp'.arg.opponent_id
                 /\ b.report[2] > b.report[4] => b.winner_id = b.user_1_id
                 /\ b.report[4] > b.report[2] => b.winner_id = b.user_2_id
                 /\ b.report[2] = b.report[4] => b.winner_id = Null
                 /\ b.winner_id \in {b.user_1_id, b.user_2_id, Null}
       ELSE battles' = battles]_vars

\* a battle of equal fleet sizes is recorded without a winner
C30_Witness ==
  /\ resp.op = "create_battle"
  /\ resp.status = 200
  /\ resp.out.winner = "Draw"
  /\ \E b \in battles : /\ b.id = resp.out.battle_id
                         /\ b.winner_id = Null
                         /\ b.report[2] = b.report[4]

-----------------------------------------------------------------------------
(* Properties of the fleets *)

FleetOps == {"get_user_fleet", "update_user_fleet", "delete_user_fleet"}

\* a request for a fleet by id, of an authenticated caller, that reached the store
FleetReached(r) ==
  /\ r.op \in FleetOps
  /\ r.arg.caller # <<>>
  /\ r.detail # DbDown.detail

\* C22: a request for a fleet by id is answered 404 when no fleet has the id
\* and 403 when the fleet belongs to another user, so that the two answers
\* differ in status.
C22_MissingAndForeignDistinct ==
  [][FleetReached(resp') =>
       LET f == Named(resp'.arg.user_fleet_id)
       IN /\ f = NoRow => resp'.status = 404
          /\ (f # NoRow /\ Str(f.user_id) # resp'.arg.caller.id) => resp'.status = 403]_vars

\* C28: update_user_fleet and delete_user_fleet change or remove a stored fleet
\* only when the caller's id equals the fleet's user_id; for a missing fleet
\* and for a fleet of another user, the caller being an admin or not, the
\* user_fleets table stays as it was.
C28_OnlyOwnerChangesFleet ==
  [][/\ \A f \in user_fleets :
          f \notin user_fleets' =>
            /\ resp'.op \in {"update_user_fleet", "delete_user_fleet"}
            /\ resp'.arg.user_fleet_id = f.id
            /\ resp'.arg.caller # <<>>
            /\ resp'.arg.caller.id = Str(f.user_id)
     /\ \A f \in user_fleets' :
          f \notin user_fleets =>
            \E g \in user_fleets :
              /\ g.id = f.id
              /\ g.user_id = f.user_id
              /\ resp'.arg.caller.id = Str(g.user_id)
     /\ (/\ resp'.op \in {"update_user_fleet", "delete_user_fleet"}
         /\ resp'.arg.caller # <<>>
         /\ \/ Named(resp'.arg.user_fleet_id) = NoRow
            \/ Str(Named(resp'.arg.user_fleet_id).user_id) # resp'.arg.caller.id)
        => user_fleets' = user_fleets]_vars

\* the admin asked to delete the fleet of the other user, which is still stored
C28_Witness ==
  /\ resp.op = "delete_user_fleet"
  /\ resp.arg.caller # <<>>
  /\ resp.arg.caller.is_admin
  /\ Named(resp.arg.user_fleet_id) # NoRow
  /\ Str(Named(resp.arg.user_fleet_id).user_id) # resp.arg.caller.id
  /\ resp.status # 200
  /\ resp.detail # DbDown.detail

-----------------------------------------------------------------------------
(* Properties of the administration of the credential records *)

AdminOps == {"update_user", "users_update_user", "delete_user", "users_delete_user"}

\* a request to one of the four handlers whose bearer token resolved to a
\* Principal that is no admin
ByNonAdmin(r) ==
  /\ r.op \in AdminOps
  /\ r.arg.caller # <<>>
  /\ ~r.arg.caller.is_admin

\* C21 as stated: update_user and delete_user of both routers, invoked with a
\* non-admin Principal, answer 403.
C21_NonAdminForbidden == ByNonAdmin(resp) => resp.status = 403

\* C21: update_user and delete_user of both routers, invoked with a non-admin
\* Principal, leave every credential record as it was and answer 403, except
\* that the two handlers of the auth router answer 400 to a user_id that is no
\* uuid, which they parse before they look at is_admin.
C21_NonAdminChangesNothing ==
  [][ByNonAdmin(resp')
     => /\ users' = users
        /\ nextId' = nextId
        /\ IF resp'.op \in {"update_user", "delete_user"}
              /\ resp'.arg.user_id = BadUuid
           THEN /\ resp'.status = 400
                /\ resp'.detail = <<"Invalid user ID format">>
           ELSE resp'.status = 403]_vars

\* a non-admin asked the users router to delete the record of the admin, which
\* is still stored
C21_Witness ==
  /\ ByNonAdmin(resp)
  /\ resp.op = "users_delete_user"
  /\ resp.status = 403
  /\ \E u \in users : Str(u.id) = resp.arg.user_id /\ u.is_admin

\* C26: every step that stores a credential record with is_admin true, or
\* turns the is_admin of a stored record to true, is a request whose caller is
\* a Principal with is_admin true.
C26_OnlyAdminsMakeAdmins ==
  [][(\E u \in users' : /\ u.is_admin
                         /\ \A v \in users : v.id = u.id => ~v.is_admin)
     => /\ resp'.op \in AdminOps
        /\ resp'.arg.caller # <<>>
        /\ resp'.arg.caller.is_admin]_vars

\* a register or register-admin request that reached the store
RegisterReached ==
  /\ resp.op \in {"register", "register-admin"}
  /\ resp.detail # DbDown.detail

\* C27: register and register-admin with a username or an email that a stored
\* record has are answered 400, "Username already taken" or "Email already in
\* use", and not with an internal server error.
C27_DuplicateIsClientError ==
  (/\ RegisterReached
   /\ resp.status # 200
   /\ \E u \in users : \/ u.username = resp.arg.username
                         \/ u.email = resp.arg.email)
  => /\ resp.status = 400
     /\ resp.detail \in {<<"Username already taken">>, <<"Email already in use">>}

-----------------------------------------------------------------------------
(* Properties of the planets *)

ActingOps ==
  {"read_users_me", "create_planet", "read_all_planets", "update_planet",
   "delete_planet", "claim_planet"}

\* C25: a planet operation or /users/me that succeeds for a caller acts for the
\* record whose id is the id claim of the caller's token: such a record is
\* stored, /users/me returns it, and the planets created, claimed or deleted
\* get or have its id as their user_id.
C25_ActsForTokenId ==
  [][(/\ resp'.op \in ActingOps
      /\ resp'.status = 200)
     => /\ \E u \in users : Str(u.id) = resp'.arg.caller.id
        /\ resp'.op = "read_users_me" => resp'.out.id = resp'.arg.caller.id
        /\ resp'.op = "create_planet" => resp'.out.owner_id = resp'.arg.caller.id
        /\ \A p \in planets' : p \notin planets => Str(p.user_id) = resp'.arg.caller.id
        /\ \A p \in planets : p \notin planets' =>
             \/ Str(p.user_id) = resp'.arg.caller.id
             \/ resp'.op = "claim_planet"]_vars

\* C29: when no handler is running, every connection opened by connect_to_db
\* has been closed.
C29_ConnectionsClosed ==
  (\A c \in CallIds : calls[c].pc = "idle") => connections = 0

-----------------------------------------------------------------------------
(* Properties of the session lifecycle *)

\* the token was signed with key and is a well-formed jwt
SignedWith(token, key) == token.fmt = "jwt" /\ token.key = key

Expired(token, at) == "exp" \in token.has /\ token.exp < at

\* C1: a login with a registered (username, password) pair followed immediately
\* by get_current_user on the returned access token succeeds, with the
\* registered username and the stored is_admin flag, for every username
\* registration accepts, the empty one included.
C1_LoginThenResolve ==
  [][(/\ resp.op = "login"
      /\ resp.status = 200
      /\ resp'.op = "get_current_user"
      /\ resp'.arg.token = resp.out.access_token)
     => /\ resp'.status = 200
        /\ resp'.out.username = resp.arg.username
        /\ \E u \in users : /\ u.username = resp.arg.username
                            /\ u.is_admin = resp'.out.is_admin]_vars

\* C1, for the usernames that are not empty: the round trip of login and
\* get_current_user returns the registered username and the stored flag.
LoginThenResolveNonEmpty ==
  [][(/\ resp.op = "login"
      /\ resp.status = 200
      /\ resp.arg.username # ""
      /\ resp'.op = "get_current_user"
      /\ resp'.arg.token = resp.out.access_token)
     => /\ resp'.status = 200
        /\ resp'.out.username = resp.arg.username
        /\ \E u \in users : /\ u.username = resp.arg.username
                            /\ u.is_admin = resp'.out.is_admin]_vars

\* the id, sub and is_admin claims a token carries
Claims(token) ==
  [has |-> token.has \ {"exp"}, id |-> token.id, sub |-> token.sub,
   is_admin |-> token.is_admin]

\* C11: refresh mints both new tokens from the id, sub and is_admin claims of the
\* token presented, and after a login and any number of refreshes
\* get_current_user on the newest access token answers with the Principal it
\* gave for the access token of the login.
C11_RefreshKeepsPrincipal ==
  /\ (resp.op = "refresh" /\ resp.status = 200)
       => /\ Claims(resp.out.access_token) = Claims(resp.arg.token)
          /\ Claims(resp.out.refresh_token) = Claims(resp.arg.token)
  /\ (/\ resp.op = "get_current_user"
      /\ resp.arg.token \in accessIssued
      /\ ~Expired(resp.arg.token, now))
     => /\ resp.status = 200
        /\ resp.out = get_current_user(OriginalLogin.access_token, 0).out

\* the access token of a second refresh in a row is resolved
C11_Witness ==
  /\ resp.op = "get_current_user"
  /\ resp.status = 200
  /\ resp.arg.token \in accessIssued
  /\ \E t \in refreshed :
       /\ t.exp > RefreshLifeSeconds
       /\ resp.arg.token.exp - AccessLifeSeconds > t.exp - RefreshLifeSeconds

\* the Principal of a credential record at the time a login signs it
PrincipalOf(user) ==
  [id |-> Str(user.id), username |-> user.username, is_admin |-> user.is_admin]

\* C12: an unexpired access token issued before its credential record was
\* deleted, renamed or given another is_admin flag is accepted afterwards as
\* before, with the id, username and is_admin the record had when the token was
\* issued: nothing an operation does to the store revokes a token.
C12_NoRevocation ==
  (/\ resp.op = "get_current_user"
   /\ resp.arg.token \in accessIssued
   /\ ~Expired(resp.arg.token, now))
  => /\ resp.status = 200
     /\ \E u \in BattleUsers :
          /\ resp.arg.token = create_access_token(login_payload(u), 0)
          /\ resp.out = PrincipalOf(u)

\* a token is accepted with a Principal that no stored record has any more,
\* after the record of a token holder was deleted
C12_Witness ==
  /\ resp.op = "get_current_user"
  /\ resp.status = 200
  /\ \A u \in users : PrincipalOf(u) # resp.out
  /\ \E t \in accessIssued : \A u \in users : Str(u.id) # t.id

\* C24: refresh reads no credential record and counts the new lifetimes from
\* the time of the call: every unexpired refresh token of the chain that began
\* with the login of an admin is accepted, at any distance from the login and
\* whether the record is stored, deleted or demoted, and the access token
\* returned expires 30 minutes and the refresh token 7 days after the call and
\* resolves to the Principal of the login, is_admin true.
C24_RefreshOutlivesRecord ==
  /\ \A t \in refreshIssued :
       ~Expired(t, now) =>
         LET result == refresh_result(t, now)
         IN /\ result.status = 200
            /\ result.out.access_token.exp = now + AccessLifeSeconds
            /\ result.out.refresh_token.exp = now + RefreshLifeSeconds
            /\ get_current_user(result.out.access_token, now)
                 = get_current_user(AdminLogin.access_token, 0)
  /\ \A t \in accessIssued :
       ~Expired(t, now) =>
         /\ get_current_user(t, now).status = 200
         /\ get_current_user(t, now).out.is_admin
  /\ (resp.op = "refresh" /\ resp.arg.token \in refreshed /\ resp.status = 200)
       => /\ resp.out.access_token \in accessIssued
          /\ resp.out.refresh_token.exp = now + RefreshLifeSeconds

\* more than 7 days after the login, with no admin record left in the store,
\* a refresh returned a pair whose access token resolves to an admin
C24_Witness ==
  /\ now > RefreshLifeSeconds
  /\ \A u \in users : ~u.is_admin
  /\ resp.op = "refresh"
  /\ resp.status = 200
  /\ resp.out.access_token.exp > RefreshLifeSeconds
  /\ get_current_user(resp.out.access_token, now).status = 200
  /\ get_current_user(resp.out.access_token, now).out.is_admin

\* C20: after any sequence of register, register-admin, update_user and
\* delete_user no two credential records have the same username and no two
\* have the same email.
C20_UsernamesAndEmailsUnique ==
  \A u, v \in users :
    u.id # v.id => (u.username # v.username /\ u.email # v.email)

\* C13: get_current_user answers with a Principal only for a token that carries
\* an id, a sub and an is_admin claim, and then with exactly these; it answers
\* 401 to a token that lacks one of the three; and it accepts a valid token
\* with an id and a username whose is_admin is false.
C13_ThreeClaimsRequired ==
  resp.op = "get_current_user" =>
    LET token == resp.arg.token
    IN /\ resp.status = 200 =>
            /\ {"id", "sub", "is_admin"} \subseteq token.has
            /\ resp.out = [id |-> token.id, username |-> token.sub,
                           is_admin |-> token.is_admin]
       /\ ~({"id", "sub", "is_admin"} \subseteq token.has) =>
            /\ resp.status = 401
            /\ resp.detail = <<"Could not validate credentials">>
       /\ (/\ SignedWith(token, SECRET_KEY)
           /\ ~Expired(token, now)
           /\ {"id", "sub", "is_admin"} \subseteq token.has
           /\ token.id # <<>>
           /\ token.sub # ""
           /\ token.is_admin = FALSE)
          => resp.status = 200

\* a token without expiry whose is_admin is false is accepted
C13_Witness ==
  /\ resp.op = "get_current_user"
  /\ resp.status = 200
  /\ resp.out.is_admin = FALSE
  /\ "exp" \notin resp.arg.token.has
  /\ now > AccessLifeSeconds

\* a pair just returned expires 30 minutes and 7 days after the time of the call
IssuedWithLifetimes ==
  (resp.op \in {"login", "refresh"} /\ resp.status = 200)
  => /\ resp.out.access_token.exp = now + 30 * 60
     /\ resp.out.refresh_token.exp = now + 7 * 24 * 60 * 60
     /\ resp.out.access_token.exp < resp.out.refresh_token.exp

\* C14: the access token of a pair issued at time t by login or refresh is
\* accepted by get_current_user up to t + 30 minutes and not after, its refresh
\* token by refresh up to t + 7 days and not after, so that the access token
\* expires first.
C14_PairLifetimes ==
  /\ IssuedWithLifetimes
  /\ (resp.op = "get_current_user" /\ resp.arg.token \in accessIssued)
       => (resp.status = 200 <=> now <= resp.arg.token.exp)
  /\ (resp.op = "refresh" /\ resp.arg.token \in refreshIssued)
       => (resp.status = 200 <=> now <= resp.arg.token.exp)

\* C14, for the pairs of users whose username is not empty.
PairLifetimesOfNamedUsers ==
  /\ IssuedWithLifetimes
  /\ (/\ resp.op = "get_current_user"
      /\ resp.arg.token \in accessIssued
      /\ resp.arg.token.sub # "")
       => (resp.status = 200 <=> now <= resp.arg.token.exp)
  /\ (/\ resp.op = "refresh"
      /\ resp.arg.token \in refreshIssued
      /\ resp.arg.token.sub # "")
       => (resp.status = 200 <=> now <= resp.arg.token.exp)

\* C6: get_current_user rejects with 401 an access token that is well-formed and
\* signed with the access secret at every time after its expiry, and the clock
\* never runs back, so nothing makes it accepted again.
C6_ExpiredAccessRejected ==
  [][/\ now' >= now
     /\ (/\ resp'.op = "get_current_user"
         /\ SignedWith(resp'.arg.token, SECRET_KEY')
         /\ Expired(resp'.arg.token, now'))
        => /\ resp'.status = 401
           /\ resp'.detail = credentials_exception.detail]_vars

C6_Witness ==
  /\ resp.op = "get_current_user"
  /\ resp.arg.token \in accessIssued
  /\ SignedWith(resp.arg.token, SECRET_KEY)
  /\ Expired(resp.arg.token, now)
  /\ resp.status = 401

\* C7: refresh answers 401 to every token that is malformed, not signed with the
\* refresh secret or past its expiry, and then returns and hands out no token.
C7_BadRefreshRejected ==
  [][(/\ resp'.op = "refresh"
      /\ \/ ~SignedWith(resp'.arg.token, REFRESH_SECRET_KEY')
         \/ Expired(resp'.arg.token, now'))
     => /\ resp'.status = 401
        /\ resp'.detail = <<"Invalid or expired refresh token">>
        /\ resp'.out = <<>>
        /\ accessIssued' = accessIssued
        /\ refreshIssued' = refreshIssued]_vars

C7_Witness ==
  /\ resp.op = "refresh"
  /\ resp.arg.token \in refreshIssued
  /\ SignedWith(resp.arg.token, REFRESH_SECRET_KEY)
  /\ Expired(resp.arg.token, now)
  /\ resp.status = 401

\* C8: under every configuration the program starts with, get_current_user
\* accepts no refresh token handed out by login or refresh, and refresh accepts
\* no access token.
C8_KindsNotInterchangeable ==
  /\ (resp.op = "get_current_user" /\ resp.arg.token \in refreshIssued)
       => resp.status # 200
  /\ (resp.op = "refresh" /\ resp.arg.token \in accessIssued)
       => resp.status # 200

\* C8, for the configurations whose two secrets differ.
KindsNotInterchangeableUnderDistinctSecrets ==
  SECRET_KEY # REFRESH_SECRET_KEY => C8_KindsNotInterchangeable

\* C9: a login for a username without a row and a login with a wrong password
\* for a stored username get the same status and the same detail.
C9_LoginFailuresIdentical ==
  (/\ resp.op = "login"
   /\ resp.detail # DbDown.detail
   /\ \A u \in get_user_by_username(resp.arg.username) :
        ~verify_password(resp.arg.password, u.password))
  => /\ resp.status = 401
     /\ resp.detail = <<"Invalid username or password">>

C9_Witness ==
  /\ resp.op = "login"
  /\ resp.status = 401
  /\ get_user_by_username(resp.arg.username) # {}
  /\ \E other \in Usernames : get_user_by_username(other) = {}

\* C10: a refresh token that refresh has accepted before is accepted again at
\* every time up to its own expiry, whatever was minted in between.
C10_RefreshReplayable ==
  (/\ resp.op = "refresh"
   /\ resp.arg.again
   /\ ~Expired(resp.arg.token, now))
  => resp.status = 200

C10_Witness ==
  /\ resp.op = "refresh"
  /\ resp.arg.again
  /\ resp.status = 200
  /\ resp.out.refresh_token # resp.arg.token
  /\ resp.arg.token \in refreshIssued

====
